---- MODULE Spec2Model ----
(***************************************************************************)
(* Model of the PID controller of MarAlze/advanced-pid-controller.         *)
(*                                                                         *)
(* Two controller classes are modelled:                                    *)
(*   - the canonical controller, src/unnamed/part_001 (cached p/i/d        *)
(*     fields, freeze-in-deadband, division-based anti-windup);            *)
(*   - src/index.js, the module the sample application loads (dynamic      *)
(*     p/i/d getters, zero-and-reset deadband, multiplicative anti-windup).*)
(*                                                                         *)
(* JavaScript values are modelled as records:                              *)
(*   [k |-> "fin", n, d]  the finite number n/d (d > 0, lowest terms)      *)
(*   [k |-> "inf", n, d]  +Infinity (n = 1) or -Infinity (n = -1)          *)
(*   [k |-> "nan", ...]   NaN                                              *)
(*   [k |-> "str", ...]   a value whose typeof is not 'number'             *)
(*   [k |-> "undef", ...] an omitted argument (undefined)                  *)
(* Arithmetic on finite numbers is exact (rationals): rounding of IEEE     *)
(* doubles and the sign of zero are not modelled.  Infinity and NaN        *)
(* propagate as in IEEE 754.                                               *)
(***************************************************************************)
EXTENDS Integers, Sequences, FiniteSets, TLC

(***************************************************************************)
(* JavaScript numbers                                                      *)
(***************************************************************************)
RECURSIVE GCD(_, _)
GCD(a, b) == IF b = 0 THEN a ELSE GCD(b, a % b)

AbsInt(a) == IF a < 0 THEN -a ELSE a

NaN == [k |-> "nan", n |-> 0, d |-> 1]

PosInf == [k |-> "inf", n |-> 1, d |-> 1]

NegInf == [k |-> "inf", n |-> -1, d |-> 1]

Str == [k |-> "str", n |-> 0, d |-> 1]

Undef == [k |-> "undef", n |-> 0, d |-> 1]

\* The finite number a/b (b # 0), in lowest terms with a positive denominator.
Q(a, b) ==
    LET g == GCD(AbsInt(a), AbsInt(b))
        s == IF b < 0 THEN -1 ELSE 1
    IN  [k |-> "fin", n |-> (s * a) \div g, d |-> (s * b) \div g]

Z(a) == [k |-> "fin", n |-> a, d |-> 1]

Zero == Z(0)

\* typeof x === 'number'  (NaN and the infinities are numbers)
IsNumber(x) == x.k \in {"fin", "inf", "nan"}

\* -1, 0 or 1 for a finite or infinite number
Sign(x) == IF x.n > 0 THEN 1 ELSE IF x.n < 0 THEN -1 ELSE 0

Inf(s) == IF s > 0 THEN PosInf ELSE NegInf

Neg(x) == IF x.k = "nan" THEN NaN ELSE [x EXCEPT !.n = -x.n]

\* x + y
Add(x, y) ==
    IF x.k = "nan" \/ y.k = "nan" THEN NaN
    ELSE IF x.k = "inf" /\ y.k = "inf" THEN (IF x.n = y.n THEN x ELSE NaN)
    ELSE IF x.k = "inf" THEN x
    ELSE IF y.k = "inf" THEN y
    ELSE Q(x.n * y.d + y.n * x.d, x.d * y.d)

\* x - y
Sub(x, y) == Add(x, Neg(y))

\* x * y
Mul(x, y) ==
    IF x.k = "nan" \/ y.k = "nan" THEN NaN
    ELSE IF x.k = "inf" \/ y.k = "inf"
         THEN (IF Sign(x) * Sign(y) = 0 THEN NaN ELSE Inf(Sign(x) * Sign(y)))
    ELSE Q(x.n * y.n, x.d * y.d)

\* x / y
Div(x, y) ==
    IF x.k = "nan" \/ y.k = "nan" THEN NaN
    ELSE IF x.k = "inf" /\ y.k = "inf" THEN NaN
    ELSE IF x.k = "inf" THEN Inf(x.n * (IF Sign(y) < 0 THEN -1 ELSE 1))
    ELSE IF y.k = "inf" THEN Zero
    ELSE IF y.n = 0 THEN (IF x.n = 0 THEN NaN ELSE Inf(Sign(x)))
    ELSE Q(x.n * y.d, x.d * y.n)

\* Math.abs(x)
Abs(x) == IF x.k = "nan" THEN NaN ELSE [x EXCEPT !.n = AbsInt(x.n)]

\* x < y   (false when either side is NaN)
Lt(x, y) ==
    IF x.k = "nan" \/ y.k = "nan" THEN FALSE
    ELSE IF x.k = "inf" THEN x.n < 0 /\ ~(y.k = "inf" /\ y.n < 0)
    ELSE IF y.k = "inf" THEN y.n > 0
    ELSE x.n * y.d < y.n * x.d

\* x === y on numbers  (NaN is not equal to itself)
StrictEq(x, y) == x.k # "nan" /\ y.k # "nan" /\ x = y

Gt(x, y) == Lt(y, x)

Le(x, y) == Lt(x, y) \/ StrictEq(x, y)

Ge(x, y) == Lt(y, x) \/ StrictEq(x, y)

(***************************************************************************)
(* Canonical controller: src/unnamed/part_001                              *)
(***************************************************************************)

\* A default parameter value: used when the argument is omitted (undefined).
Default(v, dflt) == IF v.k = "undef" THEN dflt ELSE v

\* constructor(k_p = 0.15, k_i = 0.1, k_d = 0.03, dt = 1.0, outputMin = 0.0,
\*             outputMax = 100.0, deadband = 0.5): the parameter list.
CtorParams(a) ==
    [k_p       |-> Default(a[1], Q(15, 100)),
     k_i       |-> Default(a[2], Q(1, 10)),
     k_d       |-> Default(a[3], Q(3, 100)),
     dt        |-> Default(a[4], Z(1)),
     outputMin |-> Default(a[5], Z(0)),
     outputMax |-> Default(a[6], Z(100)),
     deadband  |-> Default(a[7], Q(1, 2))]

\* The constructor's validation: TRUE when it throws.
CtorThrows(q) ==
    \/ ~IsNumber(q.k_p) \/ ~IsNumber(q.k_i) \/ ~IsNumber(q.k_d) \/ ~IsNumber(q.dt)
    \/ ~IsNumber(q.outputMin) \/ ~IsNumber(q.outputMax) \/ ~IsNumber(q.deadband)
    \/ Le(q.dt, Zero)
    \/ Ge(q.outputMin, q.outputMax)
    \/ Lt(q.deadband, Zero)

\* The value of a failed `new`: no instance is produced.
NoInstance == [none |-> TRUE]

\* The fields the constructor assigns.
NewController(q) ==
    [k_p |-> q.k_p, k_i |-> q.k_i, k_d |-> q.k_d, dt |-> q.dt,
     outputMin |-> q.outputMin, outputMax |-> q.outputMax, deadband |-> q.deadband,
     target |-> Zero, currentValue |-> Zero, sumError |-> Zero, lastError |-> Zero,
     previousCurrentValue |-> Zero, y |-> Zero,
     _p_val |-> Zero, _i_val |-> Zero, _d_val |-> Zero,
     _isFirstActiveUpdate |-> TRUE]

\* new PIDController(...a)
constructor(a) ==
    LET q == CtorParams(a)
    IN  IF CtorThrows(q)
        THEN [c |-> NoInstance, ret |-> Undef, threw |-> TRUE]
        ELSE [c |-> NewController(q), ret |-> Undef, threw |-> FALSE]

\* setTarget(target)
setTarget(c, target) ==
    IF ~IsNumber(target)
    THEN [c |-> c, ret |-> Undef, threw |-> TRUE]
    ELSE [c |-> [c EXCEPT !.target = target], ret |-> Undef, threw |-> FALSE]

\* Mutant of setDeadband: an accepted call also clears the integral.
setDeadbandResetsIntegral(c, deadband) ==
    IF ~IsNumber(deadband) \/ Lt(deadband, Zero)
    THEN [c |-> c, ret |-> Undef, threw |-> TRUE]
    ELSE [c |-> [c EXCEPT !.deadband = deadband, !.sumError = Zero],
          ret |-> Undef, threw |-> FALSE]

\* setDeadband(deadband)
setDeadband(c, deadband) ==
    IF ~IsNumber(deadband) \/ Lt(deadband, Zero)
    THEN [c |-> c, ret |-> Undef, threw |-> TRUE]
    ELSE [c |-> [c EXCEPT !.deadband = deadband], ret |-> Undef, threw |-> FALSE]

\* The deadband test of update: deadband > 0 && Math.abs(error) <= deadband
InDeadband(c, error) == Gt(c.deadband, Zero) /\ Le(Abs(error), c.deadband)

\* Mutant of DeadbandStep: the zero-and-reset policy (output and integral are
\* cleared inside the deadband).
DeadbandStepZeroing(c) ==
    [c EXCEPT !.sumError = Zero, !.y = Zero, !._isFirstActiveUpdate = TRUE]

\* Mutant of DeadbandStep: the flag is left as it is.
DeadbandStepKeepsFlag(c) == c

\* The deadband branch of update: only the flag may change; y is returned.
DeadbandStep(c) ==
    IF c._isFirstActiveUpdate = FALSE
    THEN [c EXCEPT !._isFirstActiveUpdate = TRUE]
    ELSE c

\* Mutant of DTerm: no special case for a previousCurrentValue of 0.
DTermNoSkip(c, currentProcessValue) ==
    IF StrictEq(c.dt, Zero) THEN Zero
    ELSE Div(Mul(c.k_d, Sub(currentProcessValue, c.previousCurrentValue)), c.dt)

\* Mutant of DTerm: derivative of the error (against the stored lastError), so
\* that a change of target shows in d.
DTermOnError(c, currentProcessValue) ==
    IF StrictEq(c.dt, Zero) THEN Zero
    ELSE Div(Mul(c.k_d, Sub(Sub(c.target, currentProcessValue), c.lastError)), c.dt)

\* The derivative term of an active update, from the state before
\* previousCurrentValue is overwritten.
DTerm(c, currentProcessValue) ==
    IF StrictEq(c.dt, Zero) THEN Zero
    ELSE IF StrictEq(c.previousCurrentValue, Zero) /\ ~StrictEq(currentProcessValue, Zero)
         THEN Zero
    ELSE Div(Mul(c.k_d, Sub(currentProcessValue, c.previousCurrentValue)), c.dt)

\* Mutant of BackSolve: multiplies by k_i instead of dividing by it.
BackSolveMul(c, bound) == Mul(Sub(bound, Add(c._p_val, c._d_val)), c.k_i)

\* sumError after the back-solve against a saturation bound.
BackSolve(c, bound) == Div(Sub(bound, Add(c._p_val, c._d_val)), c.k_i)

\* Mutant of ClampAntiWindup: clamps the output and leaves sumError alone.
ClampOnly(c) ==
    IF Ge(c.y, c.outputMax) THEN [c EXCEPT !.y = c.outputMax]
    ELSE IF Le(c.y, c.outputMin) THEN [c EXCEPT !.y = c.outputMin]
    ELSE c

\* Mutant of ClampAntiWindup: after a back-solve the cached integral term is
\* recomputed from the corrected sumError.
ClampAntiWindupRecomputesI(c) ==
    IF Ge(c.y, c.outputMax)
    THEN IF Gt(c.k_i, Zero) /\ Gt(c._i_val, Sub(c.outputMax, Add(c._p_val, c._d_val)))
         THEN [c EXCEPT !.y = c.outputMax, !.sumError = BackSolve(c, c.outputMax),
                        !._i_val = Mul(c.k_i, BackSolve(c, c.outputMax))]
         ELSE [c EXCEPT !.y = c.outputMax]
    ELSE IF Le(c.y, c.outputMin)
    THEN IF Gt(c.k_i, Zero) /\ Lt(c._i_val, Sub(c.outputMin, Add(c._p_val, c._d_val)))
         THEN [c EXCEPT !.y = c.outputMin, !.sumError = BackSolve(c, c.outputMin),
                        !._i_val = Mul(c.k_i, BackSolve(c, c.outputMin))]
         ELSE [c EXCEPT !.y = c.outputMin]
    ELSE c

\* Mutant of ClampAntiWindup: the back-solve is not guarded by k_i > 0.
ClampAntiWindupUnguarded(c) ==
    IF Ge(c.y, c.outputMax)
    THEN IF Gt(c._i_val, Sub(c.outputMax, Add(c._p_val, c._d_val)))
         THEN [c EXCEPT !.y = c.outputMax, !.sumError = BackSolve(c, c.outputMax)]
         ELSE [c EXCEPT !.y = c.outputMax]
    ELSE IF Le(c.y, c.outputMin)
    THEN IF Lt(c._i_val, Sub(c.outputMin, Add(c._p_val, c._d_val)))
         THEN [c EXCEPT !.y = c.outputMin, !.sumError = BackSolve(c, c.outputMin)]
         ELSE [c EXCEPT !.y = c.outputMin]
    ELSE c

\* Output clamping and anti-windup, applied to the raw output stored in y.
ClampAntiWindup(c) ==
    IF Ge(c.y, c.outputMax)
    THEN IF Gt(c.k_i, Zero) /\ Gt(c._i_val, Sub(c.outputMax, Add(c._p_val, c._d_val)))
         THEN [c EXCEPT !.y = c.outputMax, !.sumError = BackSolve(c, c.outputMax)]
         ELSE [c EXCEPT !.y = c.outputMax]
    ELSE IF Le(c.y, c.outputMin)
    THEN IF Gt(c.k_i, Zero) /\ Lt(c._i_val, Sub(c.outputMin, Add(c._p_val, c._d_val)))
         THEN [c EXCEPT !.y = c.outputMin, !.sumError = BackSolve(c, c.outputMin)]
         ELSE [c EXCEPT !.y = c.outputMin]
    ELSE c

\* Mutant of ActiveStep: the integral term is taken from the accumulator before
\* this step's error is added.
ActiveStepStaleIntegral(c, currentProcessValue, error) ==
    LET p   == Mul(c.k_p, error)
        sum == Add(c.sumError, Mul(error, c.dt))
        i   == Mul(c.k_i, c.sumError)
        d   == DTerm(c, currentProcessValue)
    IN  [c EXCEPT !._isFirstActiveUpdate = FALSE,
                  !._p_val = p,
                  !.sumError = sum,
                  !._i_val = i,
                  !._d_val = d,
                  !.previousCurrentValue = currentProcessValue,
                  !.y = Add(Add(p, i), d)]

\* Mutant of ActiveStep: previousCurrentValue is not recorded.
ActiveStepKeepsPrevious(c, currentProcessValue, error) ==
    LET p   == Mul(c.k_p, error)
        sum == Add(c.sumError, Mul(error, c.dt))
        i   == Mul(c.k_i, sum)
        d   == DTerm(c, currentProcessValue)
    IN  [c EXCEPT !._isFirstActiveUpdate = FALSE,
                  !._p_val = p,
                  !.sumError = sum,
                  !._i_val = i,
                  !._d_val = d,
                  !.y = Add(Add(p, i), d)]

\* The active (non-deadband) part of update, up to the raw output.
ActiveStep(c, currentProcessValue, error) ==
    LET p   == Mul(c.k_p, error)
        sum == Add(c.sumError, Mul(error, c.dt))
        i   == Mul(c.k_i, sum)
        d   == DTerm(c, currentProcessValue)
    IN  [c EXCEPT !._isFirstActiveUpdate = FALSE,
                  !._p_val = p,
                  !.sumError = sum,
                  !._i_val = i,
                  !._d_val = d,
                  !.previousCurrentValue = currentProcessValue,
                  !.y = Add(Add(p, i), d)]

\* update(currentValue)
update(c, currentValue) ==
    IF ~IsNumber(currentValue)
    THEN [c |-> c, ret |-> Undef, threw |-> TRUE]
    ELSE LET error == Sub(c.target, currentValue)
         IN  IF InDeadband(c, error)
             THEN LET c1 == DeadbandStep(c)
                  IN  [c |-> c1, ret |-> c1.y, threw |-> FALSE]
             ELSE LET c2 == ClampAntiWindup(ActiveStep(c, currentValue, error))
                  IN  [c |-> c2, ret |-> c2.y, threw |-> FALSE]

\* The divisions update(currentValue) executes on c: by dt in the derivative
\* term, by k_i in the anti-windup back-solve.
UpdateDivides(c, currentValue) ==
    IF ~IsNumber(currentValue) \/ InDeadband(c, Sub(c.target, currentValue))
    THEN [by_dt |-> FALSE, by_k_i |-> FALSE]
    ELSE LET a == ActiveStep(c, currentValue, Sub(c.target, currentValue))
         IN  [by_dt |->
                  /\ ~StrictEq(c.dt, Zero)
                  /\ ~(StrictEq(c.previousCurrentValue, Zero) /\ ~StrictEq(currentValue, Zero)),
              by_k_i |->
                  IF Ge(a.y, a.outputMax)
                  THEN Gt(a.k_i, Zero)
                       /\ Gt(a._i_val, Sub(a.outputMax, Add(a._p_val, a._d_val)))
                  ELSE /\ Le(a.y, a.outputMin)
                       /\ Gt(a.k_i, Zero)
                       /\ Lt(a._i_val, Sub(a.outputMin, Add(a._p_val, a._d_val)))]

\* Mutant of reset: the output y is not cleared.
resetKeepsOutput(c) ==
    [c |-> [c EXCEPT !.sumError = Zero, !.lastError = Zero, !.currentValue = Zero,
                     !.previousCurrentValue = Zero,
                     !._p_val = Zero, !._i_val = Zero, !._d_val = Zero,
                     !._isFirstActiveUpdate = TRUE],
     ret |-> Undef, threw |-> FALSE]

\* Mutant of reset: previousCurrentValue is not cleared.
resetKeepsPrevious(c) ==
    [c |-> [c EXCEPT !.sumError = Zero, !.lastError = Zero, !.currentValue = Zero,
                     !.y = Zero,
                     !._p_val = Zero, !._i_val = Zero, !._d_val = Zero,
                     !._isFirstActiveUpdate = TRUE],
     ret |-> Undef, threw |-> FALSE]

\* reset()
reset(c) ==
    [c |-> [c EXCEPT !.sumError = Zero, !.lastError = Zero, !.currentValue = Zero,
                     !.previousCurrentValue = Zero, !.y = Zero,
                     !._p_val = Zero, !._i_val = Zero, !._d_val = Zero,
                     !._isFirstActiveUpdate = TRUE],
     ret |-> Undef, threw |-> FALSE]

\* The p, i and d getters.
GetP(c) == c._p_val

GetI(c) == c._i_val

GetD(c) == c._d_val

(***************************************************************************)
(* src/index.js: the controller the sample application loads               *)
(***************************************************************************)

\* constructor(k_p = 1.0, k_i = 0.0, k_d = 0.0, dt = 1.0, outputMin = 0.0,
\*             outputMax = 100.0, deadband = 0.5): the parameter list.
Index_CtorParams(a) ==
    [k_p       |-> Default(a[1], Z(1)),
     k_i       |-> Default(a[2], Z(0)),
     k_d       |-> Default(a[3], Z(0)),
     dt        |-> Default(a[4], Z(1)),
     outputMin |-> Default(a[5], Z(0)),
     outputMax |-> Default(a[6], Z(100)),
     deadband  |-> Default(a[7], Q(1, 2))]

\* The fields the constructor of src/index.js assigns.
Index_NewController(q) ==
    [k_p |-> q.k_p, k_i |-> q.k_i, k_d |-> q.k_d, dt |-> q.dt,
     outputMin |-> q.outputMin, outputMax |-> q.outputMax, deadband |-> q.deadband,
     target |-> Zero, currentValue |-> Zero, sumError |-> Zero, lastError |-> Zero,
     previousCurrentValue |-> Zero, y |-> Zero]

\* new PIDController(...a); the validation is that of the canonical controller.
Index_constructor(a) ==
    LET q == Index_CtorParams(a)
    IN  IF CtorThrows(q)
        THEN [c |-> NoInstance, ret |-> Undef, threw |-> TRUE]
        ELSE [c |-> Index_NewController(q), ret |-> Undef, threw |-> FALSE]

\* The p getter: computed from the current fields.
Index_p(c) == Mul(c.k_p, Sub(c.target, c.currentValue))

\* The i getter: sumError divided by k_i.
Index_i(c) == IF StrictEq(c.k_i, Zero) THEN Zero ELSE Div(c.sumError, c.k_i)

\* The d getter.
Index_d(c) ==
    IF StrictEq(c.k_d, Zero) \/ StrictEq(c.dt, Zero) THEN Zero
    ELSE Div(Mul(c.k_d, Sub(c.currentValue, c.previousCurrentValue)), c.dt)

\* Mutant of Index_DeadbandStep: the freeze policy (nothing is changed inside
\* the deadband).
Index_DeadbandStepFreeze(c) == c

\* The deadband branch of update in src/index.js: output and integral are zeroed.
Index_DeadbandStep(c) ==
    [c EXCEPT !.sumError = Zero, !.lastError = Zero,
              !.previousCurrentValue = c.currentValue, !.y = Zero]

\* Output clamping and anti-windup of src/index.js, applied to the raw output in y.
Index_ClampAntiWindup(c) ==
    IF Ge(c.y, c.outputMax)
    THEN IF Gt(c.k_i, Zero)
         THEN [c EXCEPT !.y = c.outputMax,
                        !.sumError = Mul(Sub(c.outputMax, Add(Index_p(c), Index_d(c))), c.k_i)]
         ELSE [c EXCEPT !.y = c.outputMax, !.sumError = Zero]
    ELSE IF Le(c.y, c.outputMin)
    THEN LET integralTarget == IF StrictEq(c.outputMin, Zero) THEN Q(1, 100) ELSE c.outputMin
         IN  IF Gt(c.k_i, Zero)
             THEN [c EXCEPT !.y = c.outputMin,
                            !.sumError = Mul(Sub(integralTarget, Add(Index_p(c), Index_d(c))), c.k_i)]
             ELSE [c EXCEPT !.y = c.outputMin, !.sumError = Zero]
    ELSE c

\* update(currentValue) of src/index.js
Index_update(c, currentValue) ==
    IF ~IsNumber(currentValue)
    THEN [c |-> c, ret |-> Undef, threw |-> TRUE]
    ELSE LET c0    == [c EXCEPT !.previousCurrentValue = c.currentValue,
                                !.currentValue = currentValue]
             error == Sub(c0.target, c0.currentValue)
         IN  IF InDeadband(c0, error)
             THEN LET c1 == Index_DeadbandStep(c0)
                  IN  [c |-> c1, ret |-> c1.y, threw |-> FALSE]
             ELSE LET c2 == [c0 EXCEPT !.sumError = Add(c0.sumError, Mul(error, c0.dt)),
                                       !.lastError = error]
                      c3 == [c2 EXCEPT !.y = Add(Add(Index_p(c2), Index_i(c2)), Index_d(c2))]
                      c4 == Index_ClampAntiWindup(c3)
                  IN  [c |-> c4, ret |-> c4.y, threw |-> FALSE]

\* reset() of src/index.js
Index_reset(c) ==
    [c |-> [c EXCEPT !.sumError = Zero, !.lastError = Zero,
                     !.previousCurrentValue = Zero, !.y = Zero],
     ret |-> Undef, threw |-> FALSE]

(***************************************************************************)
(* Inputs                                                                  *)
(***************************************************************************)
MaxCalls == 4

\* Constructor argument lists <<k_p, k_i, k_d, dt, outputMin, outputMax, deadband>>
\* of finite numbers: five the constructor accepts, five it rejects.
FiniteConfigs ==
    { <<Z(1), Z(0), Z(0), Z(1), Z(0), Z(100), Z(0)>>,
      <<Z(1), Z(1), Z(0), Z(1), Z(0), Z(100), Z(0)>>,
      <<Z(1), Z(2), Z(1), Z(1), Z(0), Z(10), Z(1)>>,
      <<Z(2), Z(2), Z(1), Z(2), Z(2), Z(10), Z(1)>>,
      <<Z(1), Z(-1), Z(2), Z(1), Z(-10), Z(-2), Z(0)>>,
      <<Z(1), Z(2), Z(1), Z(0), Z(0), Z(10), Z(1)>>,
      <<Z(1), Z(2), Z(1), Z(-1), Z(0), Z(10), Z(1)>>,
      <<Z(1), Z(2), Z(1), Z(1), Z(10), Z(10), Z(1)>>,
      <<Z(1), Z(2), Z(1), Z(1), Z(10), Z(0), Z(1)>>,
      <<Z(1), Z(2), Z(1), Z(1), Z(0), Z(10), Z(-1)>> }

BaseConfig == <<Z(1), Z(2), Z(1), Z(1), Z(0), Z(10), Z(1)>>

\* new PIDController(): every argument omitted.
NoArgs == [j \in 1..7 |-> Undef]

Specials == {NaN, PosInf, NegInf, Str, Undef}

\* The argument lists of the main specification: the finite ones, the empty
\* one, and one with a NaN gain.
MainArgs == FiniteConfigs \cup {NoArgs, [BaseConfig EXCEPT ![3] = NaN]}

\* The argument lists of the construction specification: those of MainArgs and
\* the base list with any one argument replaced by a non-finite, non-numeric
\* or omitted value.
CtorArgs ==
    MainArgs \cup { [BaseConfig EXCEPT ![j] = s] : j \in 1..7, s \in Specials }

Targets == {Z(0), Z(5), Z(200), NaN, Str}

Measurements == {Z(0), Z(3), Z(8), NaN, PosInf, Str}

Deadbands == {Z(0), Z(2), Z(-1), NaN, Str}

(***************************************************************************)
(* State                                                                   *)
(***************************************************************************)
VARIABLES
    impl,     \* the class in use: "part_001" (canonical) or "index" (src/index.js)
    args,     \* the constructor's argument list
    pid,      \* the controller instance, or NoInstance when the constructor threw
    last,     \* the most recent call: name, argument, returned value, whether it threw
    calls,    \* number of calls made on the instance
    twin,     \* a second instance, constructed afresh at the latest reset() of pid
              \* and given every later call pid is given (NoInstance before)
    twinLast, \* the most recent call on twin
    twinSeq,  \* history of twin, as seq is that of pid
    lastActive, \* history: the measurement of the most recent active update of
              \* pid since construction/reset, 0 when there has been none
    seq,      \* history: "none" no active update since construction/reset,
              \* "active" the latest update was active, "band" the latest update
              \* was suppressed by the deadband after an earlier active one
    run       \* history: the current run of consecutive active updates with one
              \* measurement m and one target tgt: its length, whether it began
              \* with the first active update since construction/reset, and
              \* whether an update of it computed with the measurement already
              \* constant has returned outputMax

vars == <<impl, args, pid, last, calls, twin, twinLast, twinSeq, lastActive, seq, run>>

Call(op, arg, r) == [op |-> op, arg |-> arg, ret |-> r.ret, threw |-> r.threw]

NoCall == [op |-> "none", arg |-> Undef, ret |-> Undef, threw |-> FALSE]

NoRun == [len |-> 0, m |-> Zero, tgt |-> Zero, anchored |-> FALSE, sat |-> FALSE]

\* Whether update(m) on c would run the active (non-deadband) branch.
IsActive(c, m) == IsNumber(m) /\ ~InDeadband(c, Sub(c.target, m))

\* The run after the accepted update(m) on c that returned ret.
RunAfter(c, m, ret) ==
    IF ~IsActive(c, m) THEN NoRun
    ELSE LET cont == run.len >= 1 /\ run.m = m /\ run.tgt = c.target
             len  == IF cont THEN run.len + 1 ELSE 1
             anch == IF cont THEN run.anchored ELSE seq = "none"
         IN  [len |-> len, m |-> m, tgt |-> c.target, anchored |-> anch,
              sat |-> \/ (cont /\ run.sat)
                      \/ ((len >= 2 \/ anch) /\ ret = c.outputMax)]

SeqAfter(c, m) ==
    IF IsActive(c, m) THEN "active"
    ELSE IF seq = "none" THEN "none" ELSE "band"

\* The measurement of the most recent active update, after a call update(m)
\* on c that returned r.
LastActiveAfter(c, m, r) ==
    IF ~r.threw /\ IsActive(c, m) THEN m ELSE lastActive

\* The same history for an instance whose history so far is s, after a call
\* update(m) on it that returned r.
SeqNext(s, c, m, r) ==
    IF r.threw THEN s
    ELSE IF IsActive(c, m) THEN "active"
    ELSE IF s = "none" THEN "none" ELSE "band"

\* The calls, on the class in use.
New(a) == IF impl = "index" THEN Index_constructor(a) ELSE constructor(a)

DoUpdate(c, m) == IF impl = "index" THEN Index_update(c, m) ELSE update(c, m)

DoReset(c) == IF impl = "index" THEN Index_reset(c) ELSE reset(c)

\* The twin of a controller that has just been reset: a fresh instance from the
\* same constructor arguments, given the controller's target and deadband.
FreshTwin(c) ==
    setDeadband(setTarget(New(args).c, c.target).c, c.deadband).c

InitWith(class, A) ==
    /\ impl = class
    /\ \E a \in A :
        LET r == New(a)
        IN  /\ args = a
            /\ pid = r.c
            /\ last = Call("new", Undef, r)
            /\ calls = 0
            /\ twin = NoInstance
            /\ twinLast = NoCall
            /\ twinSeq = "none"
            /\ lastActive = Zero
            /\ seq = "none"
            /\ run = NoRun

Init == InitWith("part_001", MainArgs)

InitCtor == InitWith("part_001", CtorArgs)

InitIndex == InitWith("index", MainArgs)

CanCall == pid # NoInstance /\ calls < MaxCalls

SetTarget ==
    /\ CanCall
    /\ \E t \in Targets :
        LET r == setTarget(pid, t)
        IN  /\ pid' = r.c
            /\ last' = Call("setTarget", t, r)
            /\ IF twin = NoInstance
               THEN UNCHANGED <<twin, twinLast>>
               ELSE LET r2 == setTarget(twin, t)
                    IN  twin' = r2.c /\ twinLast' = Call("setTarget", t, r2)
    /\ calls' = calls + 1
    /\ UNCHANGED <<impl, args, twinSeq, lastActive, seq, run>>

SetDeadband ==
    /\ CanCall
    /\ \E v \in Deadbands :
        LET r == setDeadband(pid, v)
        IN  /\ pid' = r.c
            /\ last' = Call("setDeadband", v, r)
            /\ IF twin = NoInstance
               THEN UNCHANGED <<twin, twinLast>>
               ELSE LET r2 == setDeadband(twin, v)
                    IN  twin' = r2.c /\ twinLast' = Call("setDeadband", v, r2)
    /\ calls' = calls + 1
    /\ UNCHANGED <<impl, args, twinSeq, lastActive, seq, run>>

Update ==
    /\ CanCall
    /\ \E m \in Measurements :
        LET r == DoUpdate(pid, m)
        IN  /\ pid' = r.c
            /\ last' = Call("update", m, r)
            /\ IF twin = NoInstance
               THEN UNCHANGED <<twin, twinLast, twinSeq>>
               ELSE LET r2 == DoUpdate(twin, m)
                    IN  /\ twin' = r2.c /\ twinLast' = Call("update", m, r2)
                        /\ twinSeq' = SeqNext(twinSeq, twin, m, r2)
            /\ IF r.threw
               THEN UNCHANGED <<seq, run>>
               ELSE seq' = SeqAfter(pid, m) /\ run' = RunAfter(pid, m, r.ret)
            /\ lastActive' = LastActiveAfter(pid, m, r)
    /\ calls' = calls + 1
    /\ UNCHANGED <<impl, args>>

Reset ==
    /\ CanCall
    /\ LET r == DoReset(pid)
       IN  /\ pid' = r.c
           /\ last' = Call("reset", Undef, r)
           /\ twin' = FreshTwin(r.c)
           /\ twinLast' = NoCall
    /\ twinSeq' = "none"
    /\ lastActive' = Zero
    /\ seq' = "none"
    /\ run' = NoRun
    /\ calls' = calls + 1
    /\ UNCHANGED <<impl, args>>

Next == SetTarget \/ SetDeadband \/ Update \/ Reset

\* The calls of a caller on one instance constructed from MainArgs.
Spec == Init /\ [][Next]_vars

\* The same, with the constructor given every argument list of CtorArgs.
SpecCtor == InitCtor /\ [][Next]_vars

\* The calls of a caller on one instance of the class of src/index.js.
SpecIndex == InitIndex /\ [][Next]_vars

(***************************************************************************)
(* Two runs: two instances constructed from the same arguments and given   *)
(* the same calls, except that each setTarget passes each its own value.   *)
(* pid, last and seq are the first run, twin, twinLast and twinSeq the     *)
(* second.                                                                 *)
(***************************************************************************)
\* The argument lists of the two-run specification: three the constructor
\* accepts, with k_d # 0, and one it rejects.
PairArgs ==
    { BaseConfig,
      <<Z(2), Z(2), Z(1), Z(2), Z(2), Z(10), Z(1)>>,
      NoArgs,
      [BaseConfig EXCEPT ![4] = Z(0)] }

\* The targets tried by the two-run specification.
PairTargets == {Z(5), Z(200), NaN}

InitPair ==
    /\ impl = "part_001"
    /\ \E a \in PairArgs :
        LET r == New(a)
        IN  /\ args = a
            /\ pid = r.c /\ last = Call("new", Undef, r)
            /\ twin = r.c /\ twinLast = Call("new", Undef, r)
    /\ calls = 0
    /\ seq = "none"
    /\ twinSeq = "none"
    /\ lastActive = Zero
    /\ run = NoRun

PairSetTarget ==
    /\ CanCall
    /\ \E t1 \in PairTargets, t2 \in PairTargets :
        LET r1 == setTarget(pid, t1)
            r2 == setTarget(twin, t2)
        IN  /\ pid' = r1.c /\ last' = Call("setTarget", t1, r1)
            /\ twin' = r2.c /\ twinLast' = Call("setTarget", t2, r2)
    /\ calls' = calls + 1
    /\ UNCHANGED <<impl, args, twinSeq, lastActive, seq, run>>

PairSetDeadband ==
    /\ CanCall
    /\ \E v \in Deadbands :
        LET r1 == setDeadband(pid, v)
            r2 == setDeadband(twin, v)
        IN  /\ pid' = r1.c /\ last' = Call("setDeadband", v, r1)
            /\ twin' = r2.c /\ twinLast' = Call("setDeadband", v, r2)
    /\ calls' = calls + 1
    /\ UNCHANGED <<impl, args, twinSeq, lastActive, seq, run>>

PairUpdate ==
    /\ CanCall
    /\ \E m \in Measurements :
        LET r1 == update(pid, m)
            r2 == update(twin, m)
        IN  /\ pid' = r1.c /\ last' = Call("update", m, r1)
            /\ twin' = r2.c /\ twinLast' = Call("update", m, r2)
            /\ seq' = SeqNext(seq, pid, m, r1)
            /\ twinSeq' = SeqNext(twinSeq, twin, m, r2)
            /\ lastActive' = LastActiveAfter(pid, m, r1)
    /\ calls' = calls + 1
    /\ UNCHANGED <<impl, args, run>>

PairReset ==
    /\ CanCall
    /\ LET r1 == reset(pid)
           r2 == reset(twin)
       IN  /\ pid' = r1.c /\ last' = Call("reset", Undef, r1)
           /\ twin' = r2.c /\ twinLast' = Call("reset", Undef, r2)
    /\ seq' = "none"
    /\ twinSeq' = "none"
    /\ lastActive' = Zero
    /\ calls' = calls + 1
    /\ UNCHANGED <<impl, args, run>>

NextPair == PairSetTarget \/ PairSetDeadband \/ PairUpdate \/ PairReset

\* Two runs of the canonical controller that differ only in their targets.
SpecPair == InitPair /\ [][NextPair]_vars

(***************************************************************************)
(* Properties                                                              *)
(***************************************************************************)

\* The spec's "finite real number": a number that is neither NaN nor infinite.
IsFinite(x) == x.k = "fin"

\* All seven configuration values are finite numbers.
ValidConfig(c) ==
    /\ IsFinite(c.k_p) /\ IsFinite(c.k_i) /\ IsFinite(c.k_d) /\ IsFinite(c.dt)
    /\ IsFinite(c.outputMin) /\ IsFinite(c.outputMax) /\ IsFinite(c.deadband)

\* This step is a call of update (accepted or rejected).
UpdateStep == calls' = calls + 1 /\ last'.op = "update"

\* This step is an accepted call of update that ran the active branch.
ActiveUpdateStep == UpdateStep /\ ~last'.threw /\ seq' = "active"

\* C1: for a valid configuration and finite target, deadband and measurement,
\* every value update returns lies in [outputMin, outputMax].
C1_OutputBounds ==
    ( /\ last.op = "update" /\ ~last.threw
      /\ ValidConfig(pid) /\ IsFinite(pid.target) /\ IsFinite(last.arg) )
    => Le(pid.outputMin, last.ret) /\ Le(last.ret, pid.outputMax)

\* C2: when deadband > 0 and |target - measurement| <= deadband, update returns
\* the stored output y and changes nothing but (possibly) _isFirstActiveUpdate.
C2_DeadbandFreeze ==
    [][ ( /\ UpdateStep
          /\ IsNumber(last'.arg)
          /\ Gt(pid.deadband, Zero)
          /\ Le(Abs(Sub(pid.target, last'.arg)), pid.deadband) )
        => /\ ~last'.threw
           /\ last'.ret = pid.y
           /\ pid' = [pid EXCEPT !._isFirstActiveUpdate = pid'._isFirstActiveUpdate]
      ]_vars

\* C2 witness: a suppressed update, on the deadband's boundary, after an active
\* update that left a non-zero output and a non-zero integral.
C2_Witness ==
    /\ last.op = "update" /\ ~last.threw /\ seq = "band"
    /\ Abs(Sub(pid.target, last.arg)) = pid.deadband
    /\ IsFinite(pid.y) /\ pid.y # Zero /\ last.ret = pid.y
    /\ IsFinite(pid.sumError) /\ pid.sumError # Zero

\* C3: the first active update after construction or reset() has d = 0, for
\* every measurement and every (finite) k_d, however many suppressed updates
\* came before it.
C3_FirstStepDerivative ==
    [][ (ActiveUpdateStep /\ seq = "none" /\ ValidConfig(pid))
        => StrictEq(GetD(pid'), Zero) ]_vars

\* C3 witness: a first active update with k_d # 0 and a non-zero measurement,
\* after at least one earlier call.
C3_Witness ==
    /\ last.op = "update" /\ seq = "active" /\ run.len = 1 /\ run.anchored
    /\ ValidConfig(pid) /\ pid.k_d # Zero
    /\ IsFinite(last.arg) /\ last.arg # Zero
    /\ calls >= 2
    /\ GetD(pid) = Zero

\* C4: the first active update after one or more suppressed updates that
\* followed an active update has d = 0.
C4_DerivativeSkippedOnDeadbandExit ==
    [][ ( /\ ActiveUpdateStep /\ seq = "band"
          /\ ValidConfig(pid) /\ IsFinite(pid.target) /\ IsFinite(last'.arg)
          /\ IsFinite(pid.previousCurrentValue) )
        => StrictEq(GetD(pid'), Zero) ]_vars

\* C5: on an active update with k_i > 0, when the raw output p + i + d reaches
\* outputMax and i > outputMax - (p + d), sumError becomes
\* (outputMax - (p + d)) / k_i and outputMax is returned; symmetrically at
\* outputMin.
C5_AntiWindupBackSolve ==
    [][ (ActiveUpdateStep /\ ValidConfig(pid) /\ Gt(pid.k_i, Zero))
        => LET p   == GetP(pid')
               i   == GetI(pid')
               d   == GetD(pid')
               raw == Add(Add(p, i), d)
               hi  == Sub(pid.outputMax, Add(p, d))
               lo  == Sub(pid.outputMin, Add(p, d))
           IN  /\ (Ge(raw, pid.outputMax) /\ Gt(i, hi))
                  => /\ pid'.sumError = Div(hi, pid.k_i)
                     /\ last'.ret = pid.outputMax
               /\ (Le(raw, pid.outputMin) /\ Lt(i, lo))
                  => /\ pid'.sumError = Div(lo, pid.k_i)
                     /\ last'.ret = pid.outputMin
      ]_vars

\* C5 witness: a back-solve at outputMax with k_i = 2 and a non-zero result.
C5_Witness ==
    /\ last.op = "update" /\ seq = "active" /\ ValidConfig(pid)
    /\ pid.k_i = Z(2)
    /\ IsFinite(pid.y) /\ pid.y = pid.outputMax
    /\ Gt(GetI(pid), Sub(pid.outputMax, Add(GetP(pid), GetD(pid))))
    /\ pid.sumError = Div(Sub(pid.outputMax, Add(GetP(pid), GetD(pid))), pid.k_i)
    /\ pid.sumError # Zero

\* The spec's example controller: k_p = 1, k_i = 1, k_d = 0, dt = 1, range
\* [0, 100], deadband 0.
ExampleArgs == <<Z(1), Z(1), Z(0), Z(1), Z(0), Z(100), Z(0)>>

\* C6: with k_i > 0, in a run of active updates with one measurement and one
\* target giving a positive error, once an update of the run has returned
\* outputMax every later update of the run returns outputMax and leaves
\* sumError at (outputMax - p) / k_i, the value it already had.  In the example
\* (target 200, update(0) repeated from a fresh controller) every call returns
\* 100 and sumError does not exceed (100 - p) / k_i.
C6_AntiWindupContainment ==
    [][ /\ ( /\ UpdateStep /\ ~last'.threw
             /\ run.sat /\ run'.len = run.len + 1
             /\ ValidConfig(pid) /\ Gt(pid.k_i, Zero)
             /\ IsFinite(pid.target) /\ IsFinite(last'.arg)
             /\ Gt(Sub(pid.target, last'.arg), Zero) )
           => /\ last'.ret = pid.outputMax
              /\ pid'.sumError = Div(Sub(pid.outputMax, GetP(pid')), pid.k_i)
              /\ pid'.sumError = pid.sumError
        /\ ( /\ UpdateStep /\ ~last'.threw
             /\ args = ExampleArgs
             /\ run'.len >= 1 /\ run'.anchored
             /\ run'.m = Z(0) /\ run'.tgt = Z(200) )
           => /\ last'.ret = Z(100)
              /\ Le(pid'.sumError, Div(Sub(Z(100), GetP(pid')), pid.k_i))
      ]_vars

\* C6 witness: a third consecutive saturated update of a run at positive error.
C6_Witness ==
    /\ last.op = "update" /\ run.sat /\ run.len >= 3
    /\ ValidConfig(pid) /\ Gt(pid.k_i, Zero)
    /\ IsFinite(run.tgt) /\ IsFinite(run.m) /\ Gt(Sub(run.tgt, run.m), Zero)
    /\ last.ret = pid.outputMax
    /\ pid.sumError = Div(Sub(pid.outputMax, GetP(pid)), pid.k_i)

\* C7: reset() zeroes sumError, previousCurrentValue, y and the cached p, i, d,
\* sets _isFirstActiveUpdate, and leaves target, gains, dt, bounds and deadband
\* unchanged.
C7_ResetSemantics ==
    [][ (calls' = calls + 1 /\ last'.op = "reset")
        => /\ ~last'.threw
           /\ pid' = [pid EXCEPT !.sumError = Zero,
                                 !.previousCurrentValue = Zero,
                                 !.y = Zero,
                                 !._p_val = Zero, !._i_val = Zero, !._d_val = Zero,
                                 !._isFirstActiveUpdate = TRUE,
                                 !.lastError = pid'.lastError,
                                 !.currentValue = pid'.currentValue]
           /\ GetP(pid') = Zero /\ GetI(pid') = Zero /\ GetD(pid') = Zero
      ]_vars

\* C7 witness: a reset() of a controller whose target and deadband had been
\* changed by the setters.
C7_Witness ==
    /\ last.op = "reset" /\ calls >= 3
    /\ pid.target = Z(200) /\ pid.deadband = Z(2) /\ args[7] # Z(2)
    /\ pid.y = Zero /\ pid._isFirstActiveUpdate

\* C8: after reset(), every later call returns (or throws) the same on the
\* controller as on a freshly constructed one given the same target and
\* deadband, and the p, i, d getters read the same.
C8_ResetEquivalentToFresh ==
    twin # NoInstance
    => /\ twinLast.op # "none"
          => twinLast.ret = last.ret /\ twinLast.threw = last.threw
       /\ GetP(twin) = GetP(pid)
       /\ GetI(twin) = GetI(pid)
       /\ GetD(twin) = GetD(pid)

\* C8 witness: two calls after a reset() that itself followed an update, the
\* second an active update with non-zero i and d.
C8_Witness ==
    /\ twin # NoInstance /\ twinLast.op = "update" /\ calls >= 4
    /\ seq = "active" /\ ValidConfig(pid)
    /\ IsFinite(GetD(pid)) /\ GetD(pid) # Zero
    /\ IsFinite(GetI(pid)) /\ GetI(pid) # Zero

\* Whether the spec requires construction with parameters q to fail.
MustReject(q) ==
    \/ ~IsFinite(q.k_p) \/ ~IsFinite(q.k_i) \/ ~IsFinite(q.k_d) \/ ~IsFinite(q.dt)
    \/ ~IsFinite(q.outputMin) \/ ~IsFinite(q.outputMax) \/ ~IsFinite(q.deadband)
    \/ Le(q.dt, Zero)
    \/ Ge(q.outputMin, q.outputMax)
    \/ Lt(q.deadband, Zero)

\* C9: construction fails when dt <= 0, outputMin >= outputMax, deadband < 0 or
\* any parameter is not a finite number, and otherwise yields target = 0,
\* sumError = 0, previousCurrentValue = 0, y = 0, p = i = d = 0 and
\* _isFirstActiveUpdate = TRUE.
C9_ConstructionValidation ==
    last.op = "new"
    => LET q == CtorParams(args)
       IN  IF MustReject(q)
           THEN pid = NoInstance /\ last.threw
           ELSE /\ pid # NoInstance /\ ~last.threw
                /\ pid.target = Zero /\ pid.sumError = Zero
                /\ pid.previousCurrentValue = Zero /\ pid.y = Zero
                /\ GetP(pid) = Zero /\ GetI(pid) = Zero /\ GetD(pid) = Zero
                /\ pid._isFirstActiveUpdate

\* C10: update(measurement) throws when measurement is not a finite number, and
\* a rejected call leaves the controller unchanged.
C10_UpdateRejectsInvalid ==
    [][ (UpdateStep /\ ~IsFinite(last'.arg))
        => last'.threw /\ pid' = pid ]_vars

\* This step is a call of setTarget (accepted or rejected).
SetTargetStep == calls' = calls + 1 /\ last'.op = "setTarget"

\* This step is a call of setDeadband (accepted or rejected).
SetDeadbandStep == calls' = calls + 1 /\ last'.op = "setDeadband"

\* C11: setTarget(v) throws whenever v is not a finite number, setDeadband(v)
\* throws whenever v is not a finite number or v < 0, and a rejected call
\* leaves the controller unchanged.
C11_SettersRejectInvalid ==
    [][ /\ (SetTargetStep /\ ~IsFinite(last'.arg))
           => last'.threw /\ pid' = pid
        /\ (SetDeadbandStep /\ (~IsFinite(last'.arg) \/ Lt(last'.arg, Zero)))
           => last'.threw /\ pid' = pid
        /\ ((SetTargetStep \/ SetDeadbandStep) /\ last'.threw)
           => pid' = pid
      ]_vars

\* C12: an accepted setTarget(v) changes only target, an accepted
\* setDeadband(v) changes only deadband: sumError, previousCurrentValue, y, the
\* cached p, i, d and _isFirstActiveUpdate keep their values (as does every
\* other field).
C12_SetterFrame ==
    [][ /\ (SetTargetStep /\ ~last'.threw)
           => /\ pid' = [pid EXCEPT !.target = last'.arg]
              /\ GetP(pid') = GetP(pid) /\ GetI(pid') = GetI(pid)
              /\ GetD(pid') = GetD(pid)
        /\ (SetDeadbandStep /\ ~last'.threw)
           => /\ pid' = [pid EXCEPT !.deadband = last'.arg]
              /\ GetP(pid') = GetP(pid) /\ GetI(pid') = GetI(pid)
              /\ GetD(pid') = GetD(pid)
      ]_vars

\* C12 witness: an accepted setDeadband(2) right after an active update, the
\* new deadband covering the error of that update, with a non-zero integral,
\* output and derivative in place and the flag cleared.
C12_Witness ==
    /\ last.op = "setDeadband" /\ ~last.threw /\ seq = "active"
    /\ pid.deadband = Z(2) /\ args[7] # Z(2)
    /\ IsFinite(pid.target) /\ IsFinite(pid.previousCurrentValue)
    /\ Le(Abs(Sub(pid.target, pid.previousCurrentValue)), pid.deadband)
    /\ IsFinite(pid.sumError) /\ pid.sumError # Zero
    /\ IsFinite(pid.y) /\ pid.y # Zero
    /\ IsFinite(GetD(pid)) /\ GetD(pid) # Zero
    /\ ~pid._isFirstActiveUpdate

\* The spec's clamp of x to [lo, hi].
ClampTo(x, lo, hi) == IF Ge(x, hi) THEN hi ELSE IF Le(x, lo) THEN lo ELSE x

\* C13: with k_i = 0, k_d = 0 and deadband = 0, every update(m) runs the active
\* branch (also when target - m = 0) and returns k_p * (target - m) clamped to
\* [outputMin, outputMax], with p = k_p * (target - m), whatever calls were
\* made before.
C13_ProportionalOnly ==
    [][ ( /\ UpdateStep /\ IsFinite(last'.arg)
          /\ ValidConfig(pid) /\ IsFinite(pid.target)
          /\ pid.k_i = Zero /\ pid.k_d = Zero /\ pid.deadband = Zero )
        => LET p == Mul(pid.k_p, Sub(pid.target, last'.arg))
           IN  /\ ~last'.threw
               /\ seq' = "active"
               /\ ~pid'._isFirstActiveUpdate
               /\ GetP(pid') = p
               /\ last'.ret = ClampTo(p, pid.outputMin, pid.outputMax)
      ]_vars

\* C14: for two runs given the same measurements and differing only in the
\* values passed to setTarget, on every update that is active in both runs and
\* whose preceding update was active in both runs, the d getter reads the same
\* in both runs.
C14_NoDerivativeKick ==
    [][ ( /\ UpdateStep /\ ~last'.threw
          /\ seq = "active" /\ twinSeq = "active"
          /\ seq' = "active" /\ twinSeq' = "active" )
        => GetD(pid') = GetD(twin') ]_vars

\* C14 witness: the second of two updates, both active in both runs, after a
\* setTarget that gave the runs different targets: d is non-zero (so each run
\* had an earlier active update, the only earlier update there is) and p
\* differs between the runs.
C14_Witness ==
    /\ calls = 3 /\ last.op = "update" /\ ~last.threw
    /\ seq = "active" /\ twinSeq = "active"
    /\ IsFinite(pid.target) /\ IsFinite(twin.target) /\ pid.target # twin.target
    /\ IsFinite(GetD(pid)) /\ GetD(pid) # Zero
    /\ GetD(twin) = GetD(pid)
    /\ GetP(pid) # GetP(twin)

\* C15: new PIDController() with every argument omitted yields k_p = 1,
\* k_i = 0, k_d = 0, dt = 1, outputMin = 0, outputMax = 100, deadband = 0.5
\* (the deadband as constructed: setDeadband may change it later).
C15_ConstructorDefaults ==
    args = NoArgs
    => /\ pid # NoInstance
       /\ pid.k_p = Z(1) /\ pid.k_i = Z(0) /\ pid.k_d = Z(0) /\ pid.dt = Z(1)
       /\ pid.outputMin = Z(0) /\ pid.outputMax = Z(100)
       /\ (last.op = "new" => pid.deadband = Q(1, 2))

\* C16: in src/index.js, when deadband > 0 and |target - measurement| <=
\* deadband, update returns 0, sets y to 0, sumError to 0 and
\* previousCurrentValue to the measurement, and the d getter then reads 0.
C16_IndexDeadbandZeroAndReset ==
    [][ ( /\ UpdateStep
          /\ IsNumber(last'.arg)
          /\ ValidConfig(pid)
          /\ Gt(pid.deadband, Zero)
          /\ Le(Abs(Sub(pid.target, last'.arg)), pid.deadband) )
        => /\ ~last'.threw
           /\ last'.ret = Zero
           /\ pid'.y = Zero
           /\ pid'.sumError = Zero
           /\ pid'.previousCurrentValue = last'.arg
           /\ Index_d(pid') = Zero
      ]_vars

\* C16 witness: a suppressed update with a non-zero measurement, after an
\* earlier active update, on a controller with k_i # 0 and k_d # 0.
C16_Witness ==
    /\ impl = "index"
    /\ last.op = "update" /\ ~last.threw /\ seq = "band"
    /\ ValidConfig(pid) /\ pid.k_i # Zero /\ pid.k_d # Zero
    /\ IsFinite(last.arg) /\ last.arg # Zero
    /\ Le(Abs(Sub(pid.target, last.arg)), pid.deadband)
    /\ last.ret = Zero /\ pid.y = Zero /\ pid.sumError = Zero
    /\ pid.previousCurrentValue = last.arg
    /\ Index_d(pid) = Zero

\* C17: in src/index.js, right after reset() the i and d getters read 0,
\* whatever calls came before.
C17_IndexResetClearsTerms ==
    ( /\ last.op = "reset"
      /\ ValidConfig(pid) /\ IsFinite(pid.target) /\ IsFinite(pid.currentValue) )
    => Index_i(pid) = Zero /\ Index_d(pid) = Zero

\* C18: on every active update that starts with _isFirstActiveUpdate false
\* (the preceding update was active too), d = k_d * (measurement -
\* previousCurrentValue) / dt, for every previousCurrentValue, 0 included.
C18_DerivativeOnLaterSteps ==
    [][ ( /\ ActiveUpdateStep
          /\ ~pid._isFirstActiveUpdate /\ seq = "active"
          /\ ValidConfig(pid) /\ IsFinite(pid.target)
          /\ IsFinite(last'.arg) /\ IsFinite(pid.previousCurrentValue) )
        => GetD(pid') =
             Div(Mul(pid.k_d, Sub(last'.arg, pid.previousCurrentValue)), pid.dt)
      ]_vars

\* C19: _isFirstActiveUpdate is false exactly when there has been an update
\* since construction or the last reset() and the most recent update was
\* active; it is true after construction, after reset() and after every
\* suppressed update.
C19_FlagProtocol ==
    pid # NoInstance
    => /\ (pid._isFirstActiveUpdate = FALSE) <=> (seq = "active")
       /\ last.op \in {"new", "reset"} => pid._isFirstActiveUpdate = TRUE
       /\ (last.op = "update" /\ ~last.threw /\ seq # "active")
          => pid._isFirstActiveUpdate = TRUE

\* C19 witness: a suppressed update after an active one has set the flag again.
C19_Witness ==
    /\ pid # NoInstance
    /\ last.op = "update" /\ ~last.threw /\ seq = "band"
    /\ pid._isFirstActiveUpdate = TRUE
    /\ IsFinite(pid.y) /\ pid.y # Zero

\* C20: previousCurrentValue is the measurement of the most recent active
\* update since construction or the last reset(), and 0 when there has been
\* none; suppressed updates, setTarget and setDeadband leave it unchanged.
C20_PreviousMeasurementTracksActive ==
    /\ (pid # NoInstance
        => pid.previousCurrentValue = lastActive /\ pid.previousCurrentValue = Zero)
    /\ [][ /\ pid'.previousCurrentValue = lastActive'
           /\ (seq' = "none" => pid'.previousCurrentValue = Zero)
           /\ ActiveUpdateStep => pid'.previousCurrentValue = last'.arg
           /\ ( \/ SetTargetStep \/ SetDeadbandStep
                \/ (UpdateStep /\ ~last'.threw /\ seq' # "active") )
              => pid'.previousCurrentValue = pid.previousCurrentValue
         ]_vars

\* C20 witness: a suppressed update whose measurement differs from that of the
\* earlier active update, which previousCurrentValue still holds.
C20_Witness ==
    /\ pid # NoInstance
    /\ last.op = "update" /\ ~last.threw /\ seq = "band"
    /\ IsFinite(last.arg) /\ last.arg # pid.previousCurrentValue
    /\ IsFinite(pid.previousCurrentValue) /\ pid.previousCurrentValue # Zero
    /\ pid.previousCurrentValue = lastActive

\* The raw output p + i + d of the latest active update, from the getters.
RawOutput(c) == Add(Add(GetP(c), GetI(c)), GetD(c))

\* The latest active update of c saturated at outputMax (resp. outputMin) and
\* ran the back-solve: the conditions of the code, on the getters' values.
BackSolvedAtMax(c) ==
    /\ Ge(RawOutput(c), c.outputMax)
    /\ Gt(c.k_i, Zero)
    /\ Gt(GetI(c), Sub(c.outputMax, Add(GetP(c), GetD(c))))

BackSolvedAtMin(c) ==
    /\ ~Ge(RawOutput(c), c.outputMax)
    /\ Le(RawOutput(c), c.outputMin)
    /\ Gt(c.k_i, Zero)
    /\ Lt(GetI(c), Sub(c.outputMin, Add(GetP(c), GetD(c))))

\* C21: after an update that saturated at outputMax and ran the back-solve,
\* k_i * sumError <= outputMax; after one that saturated at outputMin and ran
\* the back-solve, k_i * sumError >= outputMin; also when p + d has the sign
\* opposite to the saturation.
C21_IntegralCappedWithinBound ==
    [][ ( /\ ActiveUpdateStep
          /\ ValidConfig(pid) /\ IsFinite(pid.target) /\ IsFinite(last'.arg)
          /\ IsFinite(pid.sumError) /\ IsFinite(pid.previousCurrentValue) )
        => /\ BackSolvedAtMax(pid')
              => Le(Mul(pid.k_i, pid'.sumError), pid.outputMax)
           /\ BackSolvedAtMin(pid')
              => Ge(Mul(pid.k_i, pid'.sumError), pid.outputMin)
      ]_vars

\* C22: on every active update p = k_p * (target - measurement), sumError is
\* first increased by (target - measurement) * dt, i = k_i * (the increased
\* sumError), and, when outputMin < p + i + d < outputMax, the returned value
\* and y are p + i + d and sumError keeps the increased value.
C22_ActiveStepControlLaw ==
    [][ ActiveUpdateStep
        => LET error == Sub(pid.target, last'.arg)
               sum   == Add(pid.sumError, Mul(error, pid.dt))
               raw   == RawOutput(pid')
           IN  /\ GetP(pid') = Mul(pid.k_p, error)
               /\ GetI(pid') = Mul(pid.k_i, sum)
               /\ (Lt(pid.outputMin, raw) /\ Lt(raw, pid.outputMax))
                  => /\ last'.ret = raw
                     /\ pid'.y = raw
                     /\ pid'.sumError = sum
      ]_vars

\* C22 witness: an unsaturated active update, not the first, with non-zero p,
\* i and d and a non-zero accumulator before it.
C22_Witness ==
    /\ last.op = "update" /\ ~last.threw /\ seq = "active" /\ run.len = 1
    /\ ~run.anchored
    /\ ValidConfig(pid) /\ IsFinite(pid.target) /\ IsFinite(last.arg)
    /\ IsFinite(GetP(pid)) /\ GetP(pid) # Zero
    /\ IsFinite(GetI(pid)) /\ GetI(pid) # Zero
    /\ IsFinite(GetD(pid)) /\ GetD(pid) # Zero
    /\ GetI(pid) # Mul(pid.k_i, Mul(Sub(pid.target, last.arg), pid.dt))
    /\ Lt(pid.outputMin, RawOutput(pid)) /\ Lt(RawOutput(pid), pid.outputMax)
    /\ last.ret = RawOutput(pid)
    /\ GetI(pid) = Mul(pid.k_i, pid.sumError)

\* C23: no update divides by zero: dt is non-zero in every constructed
\* controller, the division by k_i is executed only when k_i > 0, and for
\* k_i <= 0 a saturated update clamps the output and leaves sumError at the
\* old sumError + error * dt.  (An update that executes no division by dt has
\* d = 0, one that executes no division by k_i leaves sumError at that sum.)
C23_DivisionSafety ==
    [][ UpdateStep
        => LET div   == UpdateDivides(pid, last'.arg)
               error == Sub(pid.target, last'.arg)
               raw   == RawOutput(pid')
           IN  /\ ~StrictEq(pid.dt, Zero)
               /\ div.by_dt => ~StrictEq(pid.dt, Zero)
               /\ div.by_k_i => Gt(pid.k_i, Zero) /\ ~StrictEq(pid.k_i, Zero)
               /\ (ActiveUpdateStep /\ ~div.by_dt) => GetD(pid') = Zero
               /\ (ActiveUpdateStep /\ ~div.by_k_i)
                  => pid'.sumError = Add(pid.sumError, Mul(error, pid.dt))
               /\ (ActiveUpdateStep /\ Le(pid.k_i, Zero))
                  => /\ ~div.by_k_i
                     /\ pid'.sumError = Add(pid.sumError, Mul(error, pid.dt))
                     /\ Ge(raw, pid.outputMax) => last'.ret = pid.outputMax
                     /\ (~Ge(raw, pid.outputMax) /\ Le(raw, pid.outputMin))
                        => last'.ret = pid.outputMin
      ]_vars

\* C23 witness: an active update with k_i < 0 whose raw output exceeded
\* outputMax and whose i exceeded outputMax - (p + d): the output is clamped
\* and sumError, non-zero, is still the value i was computed from.
C23_Witness ==
    /\ last.op = "update" /\ ~last.threw /\ seq = "active"
    /\ ValidConfig(pid) /\ Lt(pid.k_i, Zero)
    /\ Gt(RawOutput(pid), pid.outputMax)
    /\ Gt(GetI(pid), Sub(pid.outputMax, Add(GetP(pid), GetD(pid))))
    /\ last.ret = pid.outputMax
    /\ IsFinite(pid.sumError) /\ pid.sumError # Zero
    /\ GetI(pid) = Mul(pid.k_i, pid.sumError)
    /\ pid.sumError # Div(Sub(pid.outputMax, Add(GetP(pid), GetD(pid))), pid.k_i)

\* C24: in every state reached from a successful construction by setTarget,
\* setDeadband, update and reset calls (rejected ones included), dt > 0,
\* outputMin < outputMax and deadband >= 0, and k_p, k_i, k_d, dt, outputMin
\* and outputMax have the values given at construction.
C24_ConfigurationInvariants ==
    pid # NoInstance
    => LET q == CtorParams(args)
       IN  /\ Gt(pid.dt, Zero)
           /\ Lt(pid.outputMin, pid.outputMax)
           /\ Ge(pid.deadband, Zero)
           /\ pid.k_p = q.k_p /\ pid.k_i = q.k_i /\ pid.k_d = q.k_d
           /\ pid.dt = q.dt
           /\ pid.outputMin = q.outputMin /\ pid.outputMax = q.outputMax

\* C25: after an active update in which no back-solve ran, the i getter equals
\* k_i * sumError; after one in which the back-solve ran, the i getter still
\* is k_i * (old sumError + error * dt), not k_i * (the corrected sumError),
\* so p + i + d from the getters is the unclamped raw output of the step (each
\* getter reads the term as computed before the clamp) and not the returned
\* value.
C25_CachedIntegralTerm ==
    [][ ActiveUpdateStep
        => LET error == Sub(pid.target, last'.arg)
               sum   == Add(pid.sumError, Mul(error, pid.dt))
               fired == BackSolvedAtMax(pid') \/ BackSolvedAtMin(pid')
           IN  /\ GetI(pid') = Mul(pid.k_i, sum)
               /\ ~fired => GetI(pid') = Mul(pid.k_i, pid'.sumError)
               /\ fired => /\ pid'.sumError # sum
                           /\ GetI(pid') # Mul(pid.k_i, pid'.sumError)
                           /\ GetP(pid') = Mul(pid.k_p, error)
                           /\ GetD(pid') = DTerm(pid, last'.arg)
                           /\ RawOutput(pid') # last'.ret
      ]_vars

\* C25 witness: an active update that ran the back-solve at outputMin, with
\* finite values, after an earlier update.
C25_Witness ==
    /\ last.op = "update" /\ ~last.threw /\ seq = "active" /\ calls >= 2
    /\ ValidConfig(pid) /\ BackSolvedAtMin(pid)
    /\ IsFinite(GetI(pid)) /\ IsFinite(pid.sumError) /\ IsFinite(RawOutput(pid))
    /\ GetI(pid) # Mul(pid.k_i, pid.sumError)
    /\ last.ret = pid.outputMin
    /\ Lt(RawOutput(pid), last.ret)
====
